---- MODULE Spec2Model ----
(***************************************************************************)
(* Meeting summarizer: the Streamlit session (app.py), the summarizer's   *)
(* stages and the Slack notifier (slack.py).                               *)
(*                                                                         *)
(* Text is a sequence of characters, each character a one-element string;  *)
(* the bullet glyph U+2022 is written "U+2022".                            *)
(***************************************************************************)
EXTENDS Integers, Sequences, FiniteSets, TLC

VARIABLES
    ss,        \* st.session_state: transcript, summary, action_items, docx_file, processing_complete
    widgets,   \* the three st.file_uploader widgets: video, audio, text
    fs,        \* the temporary files that exist on disk
    run,       \* process_meeting's locals and what the current run has done
    pc,        \* position of the script: "idle" or the stage process_meeting is about to enter
    shown,     \* what display_results / display_download_and_share_options rendered last
    runs,      \* number of runs started in the session
    call,      \* a direct call of generate_summary_and_actions / send_to_slack: its arguments
    ret        \* what that call returned

vars == <<ss, widgets, fs, run, pc, shown, runs, call, ret>>

None == "None"

----------------------------------------------------------------------------
(* Bounds *)

MaxLen == 4      \* longest enumerated model response
MaxPad == 28     \* longest enumerated webhook path after the prefix
MaxRuns == 2     \* runs per session

----------------------------------------------------------------------------
(* str methods *)

BULLET == "U+2022"

UpperLetters ==
    <<"A", "B", "C", "D", "E", "F", "G", "H", "I", "J", "K", "L", "M", "N",
    "O", "P", "Q", "R", "S", "T", "U", "V", "W", "X", "Y", "Z">>

LowerLetters ==
    <<"a", "b", "c", "d", "e", "f", "g", "h", "i", "j", "k", "l", "m", "n",
    "o", "p", "q", "r", "s", "t", "u", "v", "w", "x", "y", "z">>

\* str.lower(), one character
LowerChar(c) ==
    IF \E i \in 1..26 : UpperLetters[i] = c
    THEN LowerLetters[CHOOSE i \in 1..26 : UpperLetters[i] = c]
    ELSE c

\* str.lower()
Lower(s) == [i \in 1..Len(s) |-> LowerChar(s[i])]

\* the characters str.strip() removes
IsSpace(c) == c \in {" ", "\n", "\t", "\r"}

RECURSIVE LStrip(_)
LStrip(s) ==
    IF s # <<>> /\ IsSpace(Head(s)) THEN LStrip(Tail(s)) ELSE s

RECURSIVE RStrip(_)
RStrip(s) ==
    IF s # <<>> /\ IsSpace(s[Len(s)]) THEN RStrip(SubSeq(s, 1, Len(s) - 1)) ELSE s

\* str.strip()
Strip(s) == RStrip(LStrip(s))

\* str.startswith(p)
StartsWith(s, p) ==
    /\ Len(s) >= Len(p)
    /\ SubSeq(s, 1, Len(p)) = p

\* str.split('\n'): always at least one piece
RECURSIVE SplitFrom(_, _, _)
SplitFrom(s, i, cur) ==
    IF i > Len(s) THEN <<cur>>
    ELSE IF s[i] = "\n" THEN <<cur>> \o SplitFrom(s, i + 1, <<>>)
    ELSE SplitFrom(s, i + 1, Append(cur, s[i]))

SplitLines(s) == SplitFrom(s, 1, <<>>)

\* "\n".join(items)
RECURSIVE JoinLines(_)
JoinLines(items) ==
    IF items = <<>> THEN <<>>
    ELSE IF Len(items) = 1 THEN items[1]
    ELSE items[1] \o <<"\n">> \o JoinLines(Tail(items))

\* all texts over an alphabet, up to a length
RECURSIVE TextsUpTo(_, _)
TextsUpTo(alphabet, n) ==
    IF n = 0 THEN {<<>>}
    ELSE LET shorter == TextsUpTo(alphabet, n - 1)
         IN  shorter \cup {Append(t, c) : t \in {u \in shorter : Len(u) = n - 1}, c \in alphabet}

----------------------------------------------------------------------------
(* config.py *)

MAX_FILE_SIZE_MB == 100

\* the keys of MEETING_TYPE_PROMPTS
MEETING_TYPE_PROMPTS == {"standup", "planning", "retrospective"}

\* the reply ACTION_ITEMS_PROMPT tells the model to give when it finds no action item
PromptNoItemsReply ==
    <<"-", " ", "N", "o", " ", "s", "p", "e", "c", "i", "f", "i", "c", " ",
    "a", "c", "t", "i", "o", "n", " ", "i", "t", "e", "m", "s", " ", "i",
    "d", "e", "n", "t", "i", "f", "i", "e", "d", " ", "i", "n", " ", "t",
    "h", "i", "s", " ", "m", "e", "e", "t", "i", "n", "g">>

----------------------------------------------------------------------------
(* MeetingSummarizer.generate_summary_and_actions *)

IsBulleted(line) ==
    \/ StartsWith(line, <<"-">>)
    \/ StartsWith(line, <<BULLET>>)
    \/ StartsWith(line, <<"*">>)

\* a parser whose "no" guard forgets lower()
RECURSIVE ParseLinesCaseSensitive(_, _)
ParseLinesCaseSensitive(lines, action_items) ==
    IF lines = <<>> THEN action_items
    ELSE LET line == Strip(Head(lines))
         IN  IF line # <<>> /\ IsBulleted(line)
             THEN ParseLinesCaseSensitive(Tail(lines), Append(action_items, line))
             ELSE IF line # <<>> /\ Len(action_items) = 0
                     /\ ~StartsWith(line, <<"n", "o">>)
             THEN ParseLinesCaseSensitive(Tail(lines), Append(action_items, <<"-", " ">> \o line))
             ELSE ParseLinesCaseSensitive(Tail(lines), action_items)

\* the loop over action_text.split('\n')
RECURSIVE ParseLines(_, _)
ParseLines(lines, action_items) ==
    IF lines = <<>> THEN action_items
    ELSE LET line == Strip(Head(lines))
         IN  IF line # <<>> /\ IsBulleted(line)
             THEN ParseLines(Tail(lines), Append(action_items, line))
             ELSE IF line # <<>> /\ Len(action_items) = 0
                     /\ ~StartsWith(Lower(line), <<"n", "o">>)
             THEN ParseLines(Tail(lines), Append(action_items, <<"-", " ">> \o line))
             ELSE ParseLines(Tail(lines), action_items)

\* action_response.text.strip(), then the parse
ParseActionItems(response_text) ==
    ParseLines(SplitLines(Strip(response_text)), <<>>)

\* the prompt a generation request carries: the template chosen and the transcript put in it
SelectPrompt(meeting_type, which, transcript) ==
    [ template |-> IF meeting_type \in MEETING_TYPE_PROMPTS
                   THEN <<meeting_type, which>>
                   ELSE IF which = "summary" THEN <<"SUMMARIZATION_PROMPT">>
                   ELSE <<"ACTION_ITEMS_PROMPT">>,
      transcript |-> transcript ]

Raised(msg, requests) ==
    [ ok |-> FALSE, error |-> msg, requests |-> requests,
      summary |-> <<>>, action_items |-> <<>> ]

\* lines 161-189: prompt selection, the two generation requests, the parse
GenerateFromPrompts(transcript, meeting_type, summary_response, action_response) ==
    LET summary_prompt == SelectPrompt(meeting_type, "summary", transcript)
        action_prompt == SelectPrompt(meeting_type, "actions", transcript)
    IN  IF ~summary_response.ok
        THEN Raised("generation failed", <<summary_prompt>>)
        ELSE IF ~action_response.ok
        THEN Raised("generation failed", <<summary_prompt, action_prompt>>)
        ELSE [ ok |-> TRUE, error |-> None,
               requests |-> <<summary_prompt, action_prompt>>,
               summary |-> Strip(summary_response.text),
               action_items |-> ParseActionItems(action_response.text) ]

\* a summarizer that tests the transcript against "" without strip()
GenerateSummaryAndActionsNoStrip(transcript, meeting_type, summary_response, action_response) ==
    IF transcript = <<>>
    THEN Raised("Transcript is empty", <<>>)
    ELSE GenerateFromPrompts(transcript, meeting_type, summary_response, action_response)

\* generate_summary_and_actions(transcript, meeting_type); the two responses are what
\* gemini_model.generate_content answers (ok = FALSE: it raises)
GenerateSummaryAndActions(transcript, meeting_type, summary_response, action_response) ==
    IF Strip(transcript) = <<>>
    THEN Raised("Transcript is empty", <<>>)
    ELSE GenerateFromPrompts(transcript, meeting_type, summary_response, action_response)

----------------------------------------------------------------------------
(* slack.py *)

WEBHOOK_PREFIX ==
    <<"h", "t", "t", "p", "s", ":", "/", "/", "h", "o", "o", "k", "s", ".",
    "s", "l", "a", "c", "k", ".", "c", "o", "m", "/">>

\* the length validate_webhook_url requires a URL to exceed
WEBHOOK_MIN_LENGTH == 50

\* validate_webhook_url(webhook_url)
ValidateWebhookUrl(webhook_url) ==
    IF webhook_url = <<>> THEN FALSE
    ELSE /\ StartsWith(webhook_url, WEBHOOK_PREFIX)
         /\ Len(webhook_url) > WEBHOOK_MIN_LENGTH

\* str.lstrip(chars)
RECURSIVE LStripChars(_, _)
LStripChars(s, chars) ==
    IF s # <<>> /\ Head(s) \in chars THEN LStripChars(Tail(s), chars) ELSE s

\* [item.strip() for item in action_items.split('\n') if item.strip()]
RECURSIVE NonBlankStripped(_)
NonBlankStripped(lines) ==
    IF lines = <<>> THEN <<>>
    ELSE IF Strip(Head(lines)) # <<>>
    THEN <<Strip(Head(lines))>> \o NonBlankStripped(Tail(lines))
    ELSE NonBlankStripped(Tail(lines))

\* formatted_action_items
FormatActionItems(action_items) ==
    IF Strip(action_items) = <<>> THEN <<>>
    ELSE LET items == NonBlankStripped(SplitLines(action_items))
         IN  JoinLines([i \in 1..Len(items) |->
                 <<BULLET, " ">> \o LStripChars(items[i], {"-", " ", BULLET, "*"})])

\* slack_message["blocks"]
SlackMessage(summary, action_items) ==
    LET formatted == FormatActionItems(action_items)
    IN  <<[type |-> "header", text |-> <<>>],
          [type |-> "divider", text |-> <<>>],
          [type |-> "section", text |-> summary]>>
        \o (IF formatted # <<>>
            THEN <<[type |-> "section", text |-> formatted]>>
            ELSE <<>>)
        \o <<[type |-> "divider", text |-> <<>>],
             [type |-> "context", text |-> <<>>]>>

\* what requests.post does: a response with a status code, or an exception
HttpOutcomes ==
    {[raises |-> None, status_code |-> c] : c \in {200, 204, 404, 500}}
    \cup {[raises |-> e, status_code |-> 0] : e \in {"Timeout", "ConnectionError", "Exception"}}

\* a notifier that takes every 2xx status for success
PostMessageAny2xx(summary, action_items, webhook_url, http) ==
    [ result |-> http.raises = None /\ http.status_code \in 200..299,
      raised |-> None,
      posts |-> <<[url |-> webhook_url, timeout |-> 30,
                   blocks |-> SlackMessage(summary, action_items)]>> ]

\* lines 29-107: the message is built, posted once, and the outcome mapped to a bool;
\* the three except clauses turn every exception into False (raised: what escapes)
PostMessage(summary, action_items, webhook_url, http) ==
    [ result |-> http.raises = None /\ http.status_code = 200,
      raised |-> None,
      posts |-> <<[url |-> webhook_url, timeout |-> 30,
                   blocks |-> SlackMessage(summary, action_items)]>> ]

\* a notifier that refuses only the empty URL
SendToSlackAnyUrl(summary, action_items, webhook_url, http) ==
    IF webhook_url = <<>>
    THEN [result |-> FALSE, raised |-> None, posts |-> <<>>]
    ELSE IF Strip(summary) = <<>> /\ Strip(action_items) = <<>>
    THEN [result |-> FALSE, raised |-> None, posts |-> <<>>]
    ELSE PostMessage(summary, action_items, webhook_url, http)

\* send_to_slack(summary, action_items, webhook_url)
SendToSlack(summary, action_items, webhook_url, http) ==
    IF webhook_url = <<>> \/ ~StartsWith(webhook_url, WEBHOOK_PREFIX)
    THEN [result |-> FALSE, raised |-> None, posts |-> <<>>]
    ELSE IF Strip(summary) = <<>> /\ Strip(action_items) = <<>>
    THEN [result |-> FALSE, raised |-> None, posts |-> <<>>]
    ELSE PostMessage(summary, action_items, webhook_url, http)

----------------------------------------------------------------------------
(* Uploaded files *)

NoFile ==
    [kind |-> "none", size |-> 0, has_audio |-> FALSE, content |-> <<>>, utf8 |-> TRUE]

MaxBytes == MAX_FILE_SIZE_MB * 1024 * 1024

VideoFiles ==
    {[kind |-> "video", size |-> 1, has_audio |-> a, content |-> <<>>, utf8 |-> TRUE] :
        a \in BOOLEAN}
    \cup {[kind |-> "video", size |-> MaxBytes + 1, has_audio |-> TRUE,
           content |-> <<>>, utf8 |-> TRUE]}

AudioFiles ==
    {[kind |-> "audio", size |-> s, has_audio |-> TRUE, content |-> <<>>, utf8 |-> TRUE] :
        s \in {MaxBytes, MaxBytes + 1}}

TextFiles ==
    {[kind |-> "text", size |-> 1, has_audio |-> FALSE, content |-> c, utf8 |-> TRUE] :
        c \in {<<>>, <<" ", "\n">>, <<"t", "1">>, <<" ", "t", "2", "\n">>}}
    \cup {[kind |-> "text", size |-> 1, has_audio |-> FALSE,
           content |-> <<"t", "3">>, utf8 |-> FALSE],
          [kind |-> "text", size |-> MaxBytes + 1, has_audio |-> FALSE,
           content |-> <<"t", "4">>, utf8 |-> TRUE]}

FilesOf(tab) ==
    IF tab = "video" THEN VideoFiles
    ELSE IF tab = "audio" THEN AudioFiles
    ELSE TextFiles

\* MeetingSummarizer.validate_file_size(file)
ValidateFileSize(file) == ~(file.size > MaxBytes)

\* an upload handler that stores the text only while the session has no transcript
HandleFileUploadsKeepsTranscript(w, transcript) ==
    LET video_ok == w.video.kind # "none" /\ ValidateFileSize(w.video)
        audio_ok == w.audio.kind # "none" /\ ValidateFileSize(w.audio)
        content == Strip(w.text.content)
        text_ok == w.text.kind # "none" /\ w.text.utf8 /\ content # <<>>
    IN  [ uploaded_file |-> IF text_ok THEN w.text
                            ELSE IF audio_ok THEN w.audio
                            ELSE IF video_ok THEN w.video
                            ELSE NoFile,
          file_type |-> IF text_ok THEN "text"
                        ELSE IF audio_ok THEN "audio"
                        ELSE IF video_ok THEN "video"
                        ELSE None,
          transcript |-> IF text_ok /\ transcript = <<>> THEN content ELSE transcript ]

\* handle_file_uploads(summarizer): the pair it returns and the transcript it leaves
\* in the session state
HandleFileUploads(w, transcript) ==
    LET video_ok == w.video.kind # "none" /\ ValidateFileSize(w.video)
        audio_ok == w.audio.kind # "none" /\ ValidateFileSize(w.audio)
        content == Strip(w.text.content)
        text_ok == w.text.kind # "none" /\ w.text.utf8 /\ content # <<>>
    IN  [ uploaded_file |-> IF text_ok THEN w.text
                            ELSE IF audio_ok THEN w.audio
                            ELSE IF video_ok THEN w.video
                            ELSE NoFile,
          file_type |-> IF text_ok THEN "text"
                        ELSE IF audio_ok THEN "audio"
                        ELSE IF video_ok THEN "video"
                        ELSE None,
          transcript |-> IF text_ok THEN content ELSE transcript ]

----------------------------------------------------------------------------
(* Temporary files *)

TmpVideo(n) == [run |-> n, suffix |-> ".mp4"]
TmpAudio(n) == [run |-> n, suffix |-> ".wav"]

\* the first step of extract_audio_from_video that the environment makes fail
ExtractFaults ==
    {"none", "create_video_tmp", "write_video_tmp", "create_audio_tmp",
     "open_clip", "write_audiofile", "audio_output_empty"}

\* a handler that removes the video copy only
ExtractCleanupVideoOnly(video_bound, audio_bound, on_disk, n) ==
    IF video_bound /\ audio_bound
    THEN [left |-> on_disk \ {TmpVideo(n)}, unbound |-> FALSE]
    ELSE [left |-> on_disk, unbound |-> TRUE]

\* the except block of extract_audio_from_video: building the list of the two paths
\* raises UnboundLocalError when either has not been assigned, before anything is unlinked
ExtractCleanup(video_bound, audio_bound, on_disk, n) ==
    IF video_bound /\ audio_bound
    THEN [left |-> on_disk \ {TmpVideo(n), TmpAudio(n)}, unbound |-> FALSE]
    ELSE [left |-> on_disk, unbound |-> TRUE]

ExtractRaised(msg, video_bound, audio_bound, created, n) ==
    LET c == ExtractCleanup(video_bound, audio_bound, created, n)
    IN  [ ok |-> FALSE,
          error |-> IF c.unbound THEN "UnboundLocalError" ELSE msg,
          created |-> created, left |-> c.left ]

\* MeetingSummarizer.extract_audio_from_video(video_file), in run n
ExtractAudioFromVideo(video_file, n, fault) ==
    LET v == TmpVideo(n)
        a == TmpAudio(n)
    IN  IF fault = "create_video_tmp"
        THEN ExtractRaised("OSError", FALSE, FALSE, {}, n)
        ELSE IF fault = "write_video_tmp"
        THEN ExtractRaised("OSError", FALSE, FALSE, {v}, n)
        ELSE IF fault = "create_audio_tmp"
        THEN ExtractRaised("OSError", TRUE, FALSE, {v}, n)
        ELSE IF fault = "open_clip"
        THEN ExtractRaised("OSError", TRUE, TRUE, {v, a}, n)
        ELSE IF ~video_file.has_audio
        THEN ExtractRaised("No audio track found in video file", TRUE, TRUE, {v, a}, n)
        ELSE IF fault = "write_audiofile"
        THEN ExtractRaised("OSError", TRUE, TRUE, {v, a}, n)
        ELSE IF fault = "audio_output_empty"
        THEN ExtractRaised("Failed to extract audio from video", TRUE, TRUE, {v, a}, n)
        ELSE [ok |-> TRUE, error |-> None, created |-> {v, a}, left |-> {v, a}]

\* what stt_model.transcribe answers (raises: librosa.load or the model fails)
WhisperOutcomes ==
    {[raises |-> TRUE, text |-> <<>>]}
    \cup {[raises |-> FALSE, text |-> t] : t \in {<<" ">>, <<" ", "w", "1">>, <<"w", "2">>}}

\* MeetingSummarizer.transcribe_audio(audio_path)
TranscribeAudio(audio_path, files, whisper) ==
    IF audio_path \notin files
    THEN [ok |-> FALSE, error |-> "Audio file not found", transcript |-> <<>>]
    ELSE IF whisper.raises
    THEN [ok |-> FALSE, error |-> "transcription failed", transcript |-> <<>>]
    ELSE IF Strip(whisper.text) = <<>>
    THEN [ok |-> FALSE, error |-> "No speech detected in audio", transcript |-> <<>>]
    ELSE [ok |-> TRUE, error |-> None, transcript |-> Strip(whisper.text)]

Range(seq) == {seq[i] : i \in 1..Len(seq)}

\* a finally block that unlinks only the last temporary file
CleanupTempFilesLastOnly(temp_files, files) ==
    IF temp_files = <<>> THEN files ELSE files \ {temp_files[Len(temp_files)]}

\* the finally block of process_meeting
CleanupTempFiles(temp_files, files) == files \ Range(temp_files)

----------------------------------------------------------------------------
(* MeetingSummarizer.create_docx *)

Heading(name) == [kind |-> "heading", name |-> name, text |-> <<>>]
Paragraph(name, text) == [kind |-> "paragraph", name |-> name, text |-> text]

\* an assembler that writes the Action Items heading even when there are no items
CreateDocxAlwaysHeading(transcript, summary, action_items) ==
    <<Heading("Meeting Summary Report"),
      Paragraph("Generated", <<>>),
      Paragraph("separator", <<>>),
      Heading("Executive Summary"),
      Paragraph("summary", summary),
      Heading("Action Items")>>
    \o [i \in 1..Len(action_items) |-> Paragraph("List Bullet", action_items[i])]
    \o <<Heading("Full Transcript"),
         Paragraph("transcript", transcript)>>

\* create_docx(transcript, summary, action_items): the document's blocks in order
CreateDocx(transcript, summary, action_items) ==
    <<Heading("Meeting Summary Report"),
      Paragraph("Generated", <<>>),
      Paragraph("separator", <<>>),
      Heading("Executive Summary"),
      Paragraph("summary", summary)>>
    \o (IF action_items # <<>>
        THEN <<Heading("Action Items")>>
             \o [i \in 1..Len(action_items) |-> Paragraph("List Bullet", action_items[i])]
        ELSE <<>>)
    \o <<Heading("Full Transcript"),
         Paragraph("transcript", transcript)>>

----------------------------------------------------------------------------
(* The session: main() and the functions it calls *)

\* UI_CONFIG["max_transcript_display"]
max_transcript_display == 1000

\* display_results() and display_download_and_share_options(): what the page shows
Render(state) ==
    IF ~state.processing_complete
    THEN [ results |-> FALSE, summary |-> <<>>, action_items |-> <<>>,
           transcript |-> <<>>, download |-> <<>>, share |-> FALSE ]
    ELSE [ results |-> TRUE,
           summary |-> state.summary,
           action_items |-> state.action_items,
           transcript |-> IF Len(state.transcript) > max_transcript_display
                          THEN SubSeq(state.transcript, 1, max_transcript_display)
                               \o <<".", ".", ".">>
                          ELSE state.transcript,
           download |-> state.docx_file,
           share |-> state.action_items # <<>> ]

\* init_session_state(): the defaults of a new session (docx_file None is <<>>)
SessionDefaults ==
    [ transcript |-> <<>>, summary |-> <<>>, action_items |-> <<>>,
      docx_file |-> <<>>, processing_complete |-> FALSE ]

NoRun ==
    [ status |-> "none", file_type |-> None, uploaded_file |-> NoFile,
      meeting_type |-> None, temp_files |-> <<>>, audio_path |-> TmpAudio(0),
      progress |-> <<>>, stages |-> <<>>,
      extract |-> [called |-> FALSE, fault |-> None, ok |-> FALSE, error |-> None,
                   created |-> {}],
      transcribed |-> <<>>, summarized |-> <<>>, summary |-> <<>>, requests |-> <<>> ]

\* the options of the meeting type selectbox
MeetingTypes == {"general", "standup", "planning", "retrospective"}

\* what gemini_model.generate_content answers in a run
SummaryResponses ==
    {[ok |-> FALSE, text |-> <<>>], [ok |-> TRUE, text |-> <<"s", "1">>],
     [ok |-> TRUE, text |-> <<"s", "2", "\n">>]}

ActionResponses ==
    {[ok |-> FALSE, text |-> <<>>], [ok |-> TRUE, text |-> <<"-", " ", "a">>],
     [ok |-> TRUE, text |-> <<"N", "o", "n", "e">>]}

\* the except block of process_meeting
Failed(r) == [r EXCEPT !.status = "failed"]

\* the user changes one of the three uploaders; the script reruns without the button
Upload ==
    /\ pc = "idle"
    /\ \E tab \in {"video", "audio", "text"} :
        \E f \in FilesOf(tab) \cup {NoFile} :
            /\ f # widgets[tab]
            /\ widgets' = [widgets EXCEPT ![tab] = f]
    /\ ss' = [ss EXCEPT !.transcript = HandleFileUploads(widgets', ss.transcript).transcript]
    /\ shown' = Render(ss')
    /\ run' = NoRun
    /\ UNCHANGED <<fs, pc, runs, call, ret>>

\* the user presses "Process Meeting": handle_file_uploads, then process_meeting up to
\* its first branch (line 334)
ClickProcess ==
    LET h == HandleFileUploads(widgets, ss.transcript)
    IN  /\ pc = "idle"
        /\ runs < MaxRuns
        /\ h.uploaded_file.kind # "none"
        /\ \E meeting_type \in MeetingTypes :
            run' = [NoRun EXCEPT !.status = "running",
                                 !.file_type = h.file_type,
                                 !.uploaded_file = h.uploaded_file,
                                 !.meeting_type = meeting_type,
                                 !.progress = <<0>>]
        /\ ss' = [ss EXCEPT !.transcript = h.transcript]
        /\ runs' = runs + 1
        /\ pc' = IF h.file_type \in {"video", "audio"} /\ h.transcript = <<>>
                 THEN (IF h.file_type = "video" THEN "extract" ELSE "save_audio")
                 ELSE "summarize"
        /\ UNCHANGED <<widgets, fs, shown, call, ret>>

\* lines 338-344: the video branch
ExtractAudio ==
    /\ pc = "extract"
    /\ \E fault \in ExtractFaults :
        LET r == ExtractAudioFromVideo(run.uploaded_file, runs, fault)
            entered == [run EXCEPT !.progress = Append(@, 10),
                                   !.stages = Append(@, "ExtractingAudio"),
                                   !.extract = [called |-> TRUE, fault |-> fault,
                                                ok |-> r.ok, error |-> r.error,
                                                created |-> r.created]]
        IN  /\ fs' = fs \cup r.left
            /\ IF r.ok
               THEN /\ run' = [entered EXCEPT !.temp_files = <<TmpVideo(runs), TmpAudio(runs)>>,
                                              !.audio_path = TmpAudio(runs)]
                    /\ pc' = "transcribe"
               ELSE /\ run' = Failed(entered)
                    /\ pc' = "display"
    /\ UNCHANGED <<ss, widgets, shown, runs, call, ret>>

\* lines 346-353: the audio branch writes the upload to a temporary file
SaveAudio ==
    /\ pc = "save_audio"
    /\ \E fault \in {"none", "create_audio_tmp", "write_audio_tmp"} :
        LET entered == [run EXCEPT !.progress = Append(@, 10)]
        IN  /\ fs' = IF fault = "create_audio_tmp" THEN fs ELSE fs \cup {TmpAudio(runs)}
            /\ IF fault = "none"
               THEN /\ run' = [entered EXCEPT !.temp_files = <<TmpAudio(runs)>>,
                                              !.audio_path = TmpAudio(runs)]
                    /\ pc' = "transcribe"
               ELSE /\ run' = Failed(entered)
                    /\ pc' = "display"
    /\ UNCHANGED <<ss, widgets, shown, runs, call, ret>>

\* lines 355-368: transcription, then the finally block
Transcribe ==
    /\ pc = "transcribe"
    /\ \E whisper \in WhisperOutcomes :
        LET r == TranscribeAudio(run.audio_path, fs, whisper)
            entered == [run EXCEPT !.progress = Append(@, 40),
                                   !.stages = Append(@, "Transcribing"),
                                   !.transcribed = r.transcript]
        IN  /\ ss' = IF r.ok THEN [ss EXCEPT !.transcript = r.transcript] ELSE ss
            /\ run' = IF r.ok THEN entered ELSE Failed(entered)
            /\ pc' = IF r.ok THEN "summarize" ELSE "display"
    /\ fs' = CleanupTempFiles(run.temp_files, fs)
    /\ UNCHANGED <<widgets, shown, runs, call, ret>>

\* a step 3 whose failure is recorded but does not stop the run
SummarizeContinuesOnError ==
    /\ pc = "summarize"
    /\ IF ss.transcript = <<>>
       THEN /\ run' = [run EXCEPT !.status = "returned"]
            /\ pc' = "display"
            /\ ss' = ss
       ELSE \E summary_response \in SummaryResponses, action_response \in ActionResponses :
            LET r == GenerateSummaryAndActions(ss.transcript, run.meeting_type,
                                               summary_response, action_response)
                entered == [run EXCEPT !.progress = Append(@, 70),
                                       !.stages = Append(@, "Summarizing"),
                                       !.summarized = ss.transcript,
                                       !.summary = r.summary,
                                       !.requests = r.requests]
            IN  /\ ss' = IF r.ok
                         THEN [ss EXCEPT !.summary = r.summary,
                                         !.action_items = r.action_items]
                         ELSE ss
                /\ run' = IF r.ok THEN entered ELSE Failed(entered)
                /\ pc' = "docx"
    /\ UNCHANGED <<widgets, fs, shown, runs, call, ret>>

\* lines 370-380: summary and action items
Summarize ==
    /\ pc = "summarize"
    /\ IF ss.transcript = <<>>
       THEN /\ run' = [run EXCEPT !.status = "returned"]
            /\ pc' = "display"
            /\ ss' = ss
       ELSE \E summary_response \in SummaryResponses, action_response \in ActionResponses :
            LET r == GenerateSummaryAndActions(ss.transcript, run.meeting_type,
                                               summary_response, action_response)
                entered == [run EXCEPT !.progress = Append(@, 70),
                                       !.stages = Append(@, "Summarizing"),
                                       !.summarized = ss.transcript,
                                       !.summary = r.summary,
                                       !.requests = r.requests]
            IN  /\ ss' = IF r.ok
                         THEN [ss EXCEPT !.summary = r.summary,
                                         !.action_items = r.action_items]
                         ELSE ss
                /\ run' = IF r.ok THEN entered ELSE Failed(entered)
                /\ pc' = IF r.ok THEN "docx" ELSE "display"
    /\ UNCHANGED <<widgets, fs, shown, runs, call, ret>>

\* a step 4 that reports 100 before create_docx has returned
AssembleDocumentReportsEarly ==
    /\ pc = "docx"
    /\ \E ok \in BOOLEAN :
        LET entered == [run EXCEPT !.progress = Append(Append(@, 90), 100),
                                   !.stages = Append(@, "AssemblingDocument")]
        IN  IF ok
            THEN /\ ss' = [ss EXCEPT !.docx_file = CreateDocx(ss.transcript, ss.summary,
                                                              ss.action_items),
                                     !.processing_complete = TRUE]
                 /\ run' = [entered EXCEPT !.status = "complete"]
            ELSE /\ ss' = ss
                 /\ run' = Failed(entered)
    /\ pc' = "display"
    /\ UNCHANGED <<widgets, fs, shown, runs, call, ret>>

\* lines 382-400: the document, then completion
AssembleDocument ==
    /\ pc = "docx"
    /\ \E ok \in BOOLEAN :
        LET entered == [run EXCEPT !.progress = Append(@, 90),
                                   !.stages = Append(@, "AssemblingDocument")]
        IN  IF ok
            THEN /\ ss' = [ss EXCEPT !.docx_file = CreateDocx(ss.transcript, ss.summary,
                                                              ss.action_items),
                                     !.processing_complete = TRUE]
                 /\ run' = [entered EXCEPT !.progress = Append(@, 100),
                                           !.status = "complete"]
            ELSE /\ ss' = ss
                 /\ run' = Failed(entered)
    /\ pc' = "display"
    /\ UNCHANGED <<widgets, fs, shown, runs, call, ret>>

\* main() lines 604-605, after process_meeting has returned
Display ==
    /\ pc = "display"
    /\ shown' = Render(ss)
    /\ pc' = "idle"
    /\ UNCHANGED <<ss, widgets, fs, run, runs, call, ret>>

NoCall == [fn |-> "none"]
NoRet == [fn |-> "none"]

----------------------------------------------------------------------------
(* Direct calls of generate_summary_and_actions *)

NoItemsResponse ==
    <<"N", "o", " ", "a", "c", "t", "i", "o", "n", " ", "i", "t", "e", "m",
    "s", " ", "i", "d", "e", "n", "t", "i", "f", "i", "e", "d", " ", "i",
    "n", " ", "t", "h", "i", "s", " ", "m", "e", "e", "t", "i", "n", "g">>

MixedResponse ==
    <<"F", "o", "l", "l", "o", "w", " ", "u", "p", " ", "w", "i", "t", "h",
    " ", "c", "l", "i", "e", "n", "t", "\n", "-", " ", "S", "e", "n", "d",
    " ", "c", "o", "n", "t", "r", "a", "c", "t", " ", "b", "y", " ", "F",
    "r", "i", "d", "a", "y">>

MixedItem1 ==
    <<"-", " ", "F", "o", "l", "l", "o", "w", " ", "u", "p", " ", "w", "i",
    "t", "h", " ", "c", "l", "i", "e", "n", "t">>

MixedItem2 ==
    <<"-", " ", "S", "e", "n", "d", " ", "c", "o", "n", "t", "r", "a", "c",
    "t", " ", "b", "y", " ", "F", "r", "i", "d", "a", "y">>

ParseAlphabet == {"-", "*", BULLET, "N", "n", "o", " ", "\n"}

NotifyResponse ==
    <<"N", "o", "t", "i", "f", "y", " ", "t", "h", "e", " ", "v", "e", "n",
    "d", "o", "r", " ", "b", "y", " ", "F", "r", "i", "d", "a", "y">>

NoraResponse ==
    <<"N", "o", "r", "a", " ", "w", "i", "l", "l", " ", "s", "e", "n", "d",
    " ", "t", "h", "e", " ", "n", "o", "t", "e", "s">>

NamedResponses ==
    {NoItemsResponse, PromptNoItemsReply, MixedResponse, NotifyResponse, NoraResponse}

GenTranscripts == {<<>>, <<" ">>, <<"\n", "\t">>, <<"h", "i">>, <<" ", "h">>}

GenCall(t, m, s, a) ==
    [ fn |-> "generate_summary_and_actions", transcript |-> t, meeting_type |-> m,
      summary_response |-> s, action_response |-> a ]

GenCalls ==
    {GenCall(t, m, s, a) :
        t \in GenTranscripts, m \in MeetingTypes, s \in SummaryResponses,
        a \in ActionResponses \cup {[ok |-> TRUE, text |-> x] : x \in NamedResponses}}
    \cup {GenCall(<<"h", "i">>, "general", [ok |-> TRUE, text |-> <<"s", "1">>],
                  [ok |-> TRUE, text |-> x]) :
            x \in TextsUpTo(ParseAlphabet, MaxLen)}

CallGenerate ==
    /\ call.fn = "generate_summary_and_actions"
    /\ ret.fn = "none"
    /\ LET r == GenerateSummaryAndActions(call.transcript, call.meeting_type,
                                          call.summary_response, call.action_response)
       IN  ret' = [ fn |-> call.fn, ok |-> r.ok, error |-> r.error,
                    requests |-> r.requests, summary |-> r.summary,
                    action_items |-> r.action_items ]
    /\ UNCHANGED <<ss, widgets, fs, run, pc, shown, runs, call>>

----------------------------------------------------------------------------
(* Direct calls of send_to_slack *)

Pad(n) == [i \in 1..n |-> "X"]

WebhookUrls ==
    {<<>>}
    \cup {WEBHOOK_PREFIX \o Pad(n) : n \in 0..MaxPad}
    \cup {SubSeq(WEBHOOK_PREFIX, 1, Len(WEBHOOK_PREFIX) - 1) \o Pad(n) : n \in {0, MaxPad}}
    \cup {<<"h", "t", "t", "p", ":", "/", "/">> \o SubSeq(WEBHOOK_PREFIX, 9, Len(WEBHOOK_PREFIX))
           \o Pad(MaxPad)}

SlackCalls ==
    {[ fn |-> "send_to_slack", summary |-> s, action_items |-> a,
       webhook_url |-> u, http |-> h ] :
        s \in {<<>>, <<" ">>, <<"s">>},
        a \in {<<>>, <<"\n">>, <<"-", " ", "a">>, <<"-", " ", "a", "\n", "*", "b">>},
        u \in WebhookUrls, h \in HttpOutcomes}

CallSendToSlack ==
    /\ call.fn = "send_to_slack"
    /\ ret.fn = "none"
    /\ LET r == SendToSlack(call.summary, call.action_items, call.webhook_url, call.http)
       IN  ret' = [fn |-> call.fn, result |-> r.result, raised |-> r.raised,
                   posts |-> r.posts]
    /\ UNCHANGED <<ss, widgets, fs, run, pc, shown, runs, call>>

----------------------------------------------------------------------------
(* Specifications *)

SessionInit ==
    /\ ss = SessionDefaults
    /\ widgets = [video |-> NoFile, audio |-> NoFile, text |-> NoFile]
    /\ fs = {}
    /\ run = NoRun
    /\ pc = "idle"
    /\ shown = Render(SessionDefaults)
    /\ runs = 0

Init ==
    /\ SessionInit
    /\ call = NoCall
    /\ ret = NoRet

Next ==
    \/ Upload
    \/ ClickProcess
    \/ ExtractAudio
    \/ SaveAudio
    \/ Transcribe
    \/ Summarize
    \/ AssembleDocument
    \/ Display

Spec == Init /\ [][Next]_vars

\* generate_summary_and_actions called directly on enumerated arguments
InitGen ==
    /\ SessionInit
    /\ call \in GenCalls
    /\ ret = NoRet

NextGen == CallGenerate

SpecGen == InitGen /\ [][NextGen]_vars

\* send_to_slack called directly on enumerated arguments
InitSlack ==
    /\ SessionInit
    /\ call \in SlackCalls
    /\ ret = NoRet

NextSlack == CallSendToSlack

SpecSlack == InitSlack /\ [][NextSlack]_vars

----------------------------------------------------------------------------
(* Claims *)

ProcessMeetingReturned == pc \in {"display", "idle"}

\* C1: in a run with video input, once extract_audio_from_video has returned
\* successfully, neither temporary file it created exists once the try/finally around
\* transcribe_audio is left, whether transcribe_audio returned a transcript or raised.
C1_TempFilesRemoved ==
    (run.file_type = "video" /\ run.extract.ok /\ pc # "transcribe")
        => /\ run.extract.created = {TmpVideo(runs), TmpAudio(runs)}
           /\ run.extract.created \cap fs = {}

C1_Witness ==
    /\ ProcessMeetingReturned
    /\ run.file_type = "video"
    /\ run.extract.ok
    /\ run.stages = <<"ExtractingAudio", "Transcribing">>
    /\ run.status = "failed"

\* C2: for a video whose clip opens and has no audio stream, extract_audio_from_video
\* raises the no-audio-track error, and neither of its two temporary files exists when
\* the error has reached the caller.
C2_NoAudioTrack ==
    (/\ run.extract.called
     /\ ~run.uploaded_file.has_audio
     /\ run.extract.fault \notin {"create_video_tmp", "write_video_tmp",
                                  "create_audio_tmp", "open_clip"})
        => /\ ~run.extract.ok
           /\ run.extract.error = "No audio track found in video file"
           /\ run.extract.created = {TmpVideo(runs), TmpAudio(runs)}
           /\ fs \cap {TmpVideo(runs), TmpAudio(runs)} = {}

C2_Witness ==
    /\ ProcessMeetingReturned
    /\ run.extract.called
    /\ ~run.uploaded_file.has_audio
    /\ run.extract.fault = "none"
    /\ run.status = "failed"

\* C3: when a run starts, what earlier runs left in the session state has been
\* cleared: the summary, the action items, the document and the completion flag (which
\* only a run sets) are back at their defaults.
C3_ClearedAtRunStart ==
    (run.status = "running" /\ run.progress = <<0>>)
        => /\ ss.summary = <<>>
           /\ ss.action_items = <<>>
           /\ ss.docx_file = <<>>
           /\ ~ss.processing_complete

\* C4: a run on a text transcript never invokes extract_audio_from_video or
\* transcribe_audio; its stages are Summarizing, then AssemblingDocument; the text read
\* from the upload (decoded and stripped, as handle_file_uploads reads it) is the
\* transcript that is summarized and placed in the document.
C4_TextRunSkipsAudio ==
    run.file_type = "text"
        => /\ ~run.extract.called
           /\ run.transcribed = <<>>
           /\ run.temp_files = <<>>
           /\ run.stages \in {<<>>, <<"Summarizing">>, <<"Summarizing", "AssemblingDocument">>}
           /\ (pc # "summarize" => run.stages # <<>>)
           /\ ss.transcript = Strip(run.uploaded_file.content)
           /\ (run.stages # <<>> =>
                 /\ run.summarized = Strip(run.uploaded_file.content)
                 /\ \A i \in 1..Len(run.requests) :
                       run.requests[i].transcript = Strip(run.uploaded_file.content))
           /\ (run.status = "complete" =>
                 ss.docx_file[Len(ss.docx_file)] =
                     Paragraph("transcript", Strip(run.uploaded_file.content)))

C4_Witness ==
    /\ run.file_type = "text"
    /\ run.status = "complete"
    /\ run.uploaded_file.content = <<" ", "t", "2", "\n">>
    /\ ss.processing_complete
    /\ runs = 2

IsBlank(text) == \A i \in 1..Len(text) : IsSpace(text[i])

\* C5: generate_summary_and_actions on an empty or whitespace-only transcript fails
\* with the empty-transcript error and issues no generation request.
C5_EmptyTranscript ==
    (ret.fn = "generate_summary_and_actions" /\ IsBlank(call.transcript))
        => /\ ~ret.ok
           /\ ret.error = "Transcript is empty"
           /\ ret.requests = <<>>

C5_Witness ==
    /\ ret.fn = "generate_summary_and_actions"
    /\ call.transcript = <<"\n", "\t">>
    /\ call.summary_response.ok
    /\ call.action_response.ok
    /\ ~ret.ok

\* C6: an explicit "no action items" response yields an empty action-item list, both
\* for "No action items identified in this meeting" and for the reply
\* ACTION_ITEMS_PROMPT asks for when there are none.
C6_NoItemsYieldsEmpty ==
    (/\ ret.fn = "generate_summary_and_actions"
     /\ ret.ok
     /\ call.action_response.text \in {NoItemsResponse, PromptNoItemsReply})
        => ret.action_items = <<>>

\* the lines of a response, each trimmed
TrimmedLines(text) ==
    LET ls == SplitLines(text) IN [i \in 1..Len(ls) |-> Strip(ls[i])]

HasBullet(line) == line # <<>> /\ line[1] \in {"-", BULLET, "*"}

BeginsWithNo(line) == Len(line) >= 2 /\ line[1] \in {"n", "N"} /\ line[2] \in {"o", "O"}

\* line i is kept: it is bulleted, or nothing before it was kept and it does not begin
\* with "no"
KeptLine(ls, i) ==
    /\ ls[i] # <<>>
    /\ \/ HasBullet(ls[i])
       \/ /\ ~BeginsWithNo(ls[i])
          /\ \A j \in 1..(i - 1) : ls[j] = <<>> \/ (~HasBullet(ls[j]) /\ BeginsWithNo(ls[j]))

RECURSIVE ItemsFrom(_, _)
ItemsFrom(ls, i) ==
    IF i > Len(ls) THEN <<>>
    ELSE (IF KeptLine(ls, i)
          THEN <<IF HasBullet(ls[i]) THEN ls[i] ELSE <<"-", " ">> \o ls[i]>>
          ELSE <<>>)
         \o ItemsFrom(ls, i + 1)

\* C7: the parsed list is, in response order, every non-blank trimmed line that starts
\* with a bullet glyph, unchanged, and a non-bulleted line prefixed with "- " only when
\* nothing was collected before it and it does not begin with "no" (in any case);
\* every other line is dropped; the two-line example yields its two items.
C7_ParsedItems ==
    (ret.fn = "generate_summary_and_actions" /\ ret.ok)
        => /\ ret.action_items = ItemsFrom(TrimmedLines(call.action_response.text), 1)
           /\ (call.action_response.text = MixedResponse
                 => ret.action_items = <<MixedItem1, MixedItem2>>)

C7_Witness ==
    /\ ret.fn = "generate_summary_and_actions"
    /\ call.action_response.text = MixedResponse
    /\ ret.ok
    /\ Len(ret.action_items) = 2

HasWebhookPrefix(url) ==
    /\ Len(url) >= Len(WEBHOOK_PREFIX)
    /\ \A i \in 1..Len(WEBHOOK_PREFIX) : url[i] = WEBHOOK_PREFIX[i]

\* C8: send_to_slack returns failure and posts nothing when the webhook URL is empty
\* or lacks the https://hooks.slack.com/ prefix, and when summary and action items are
\* both blank.
C8_RejectsWithoutPost ==
    (/\ ret.fn = "send_to_slack"
     /\ \/ call.webhook_url = <<>>
        \/ ~HasWebhookPrefix(call.webhook_url)
        \/ (IsBlank(call.summary) /\ IsBlank(call.action_items)))
        => /\ ~ret.result
           /\ ret.posts = <<>>

C8_Witness ==
    /\ ret.fn = "send_to_slack"
    /\ call.webhook_url # <<>>
    /\ ~HasWebhookPrefix(call.webhook_url)
    /\ call.summary = <<"s">>
    /\ call.http.status_code = 200
    /\ ~ret.result

\* C9: send_to_slack with a URL that has the prefix but is 50 characters or shorter
\* returns failure and posts nothing.
C9_ShortUrlRejected ==
    (/\ ret.fn = "send_to_slack"
     /\ HasWebhookPrefix(call.webhook_url)
     /\ Len(call.webhook_url) <= WEBHOOK_MIN_LENGTH)
        => /\ ~ret.result
           /\ ret.posts = <<>>

\* C10: after a run that failed, the transcript (or summary) that run had produced is
\* still in the session state and is shown to the user.
C10_PartialResultsVisible ==
    (pc = "idle" /\ run.status = "failed")
        => /\ (run.transcribed # <<>> =>
                 ss.transcript = run.transcribed /\ shown.transcript = run.transcribed)
           /\ (run.summary # <<>> =>
                 ss.summary = run.summary /\ shown.summary = run.summary)

\* C11: send_to_slack posts at most once per call, returns success exactly when that
\* POST answered with status 200 (any other status, a timeout, a connection failure or
\* any other exception gives failure), and raises nothing to its caller.
C11_SuccessIffStatus200 ==
    ret.fn = "send_to_slack"
        => /\ Len(ret.posts) <= 1
           /\ ret.raised = None
           /\ ret.result <=> /\ Len(ret.posts) = 1
                             /\ call.http.raises = None
                             /\ call.http.status_code = 200
           /\ \A i \in 1..Len(ret.posts) : ret.posts[i].url = call.webhook_url

C11_Witness ==
    /\ ret.fn = "send_to_slack"
    /\ Len(ret.posts) = 1
    /\ call.http.raises = None
    /\ call.http.status_code = 204
    /\ ~ret.result

\* the document just assembled by the run that completed
JustAssembled == pc = "display" /\ run.status = "complete"

\* position of the block of a kind and name in a document, 0 when absent
PositionOf(doc, kind, name) ==
    IF \E i \in 1..Len(doc) : doc[i].kind = kind /\ doc[i].name = name
    THEN CHOOSE i \in 1..Len(doc) : doc[i].kind = kind /\ doc[i].name = name
    ELSE 0

\* C12: create_docx emits title, timestamp, separator, Executive Summary, Action Items,
\* Full Transcript in that order; with no action items the Action Items heading and
\* its bullets are absent and every other section is still there in the same order.
C12_DocumentSections ==
    JustAssembled =>
        LET doc == ss.docx_file
            n == Len(ss.action_items)
            title == PositionOf(doc, "heading", "Meeting Summary Report")
            stamp == PositionOf(doc, "paragraph", "Generated")
            sep == PositionOf(doc, "paragraph", "separator")
            exec == PositionOf(doc, "heading", "Executive Summary")
            items == PositionOf(doc, "heading", "Action Items")
            full == PositionOf(doc, "heading", "Full Transcript")
            bullets == {i \in 1..Len(doc) : doc[i].name = "List Bullet"}
        IN  /\ title = 1 /\ stamp = 2 /\ sep = 3 /\ exec = 4
            /\ doc[5] = Paragraph("summary", ss.summary)
            /\ IF n = 0
               THEN /\ items = 0
                    /\ bullets = {}
                    /\ full = 6
               ELSE /\ items = 6
                    /\ bullets = 7..(6 + n)
                    /\ \A i \in 1..n : doc[6 + i].text = ss.action_items[i]
                    /\ full = 7 + n
            /\ Len(doc) = full + 1
            /\ doc[full + 1] = Paragraph("transcript", ss.transcript)

C12_Witness ==
    /\ JustAssembled
    /\ ss.action_items = <<>>
    /\ Len(ss.docx_file) = 7

\* C13: on every failing exit of extract_audio_from_video, also when creating or
\* writing a temporary file fails, no temporary file the call created is left on disk
\* once the exception has reached process_meeting.
C13_NoLeakOnAnyFailure ==
    (run.extract.called /\ ~run.extract.ok)
        => run.extract.created \cap fs = {}

StageOrder == <<"ExtractingAudio", "Transcribing", "Summarizing", "AssemblingDocument">>

StageIndex(name) == CHOOSE i \in 1..Len(StageOrder) : StageOrder[i] = name

\* the stages entered are in the pipeline's order, none twice
StagesInOrder(stages) ==
    /\ \A i \in 1..Len(stages) : \E k \in 1..Len(StageOrder) : StageOrder[k] = stages[i]
    /\ \A i, j \in 1..Len(stages) :
          i < j => StageIndex(stages[i]) < StageIndex(stages[j])

\* C14: within a run the stages are entered in the order ExtractingAudio, Transcribing,
\* Summarizing, AssemblingDocument, each at most once; the step in which a stage raises
\* ends the run (no later stage, no retry), and a failed run neither sets the completion
\* flag nor reports 100.
C14_SequentialFailFast ==
    [][ /\ StagesInOrder(run'.stages)
        /\ (run'.status = "failed" /\ run.status # "failed")
              => /\ run.status = "running"
                 /\ pc' = "display"
                 /\ Len(run'.stages) = Len(run.stages) + (IF pc = "save_audio" THEN 0 ELSE 1)
                 /\ ss'.processing_complete = ss.processing_complete
                 /\ \A i \in 1..Len(run'.progress) : run'.progress[i] # 100
        /\ (run.status = "failed" /\ run'.status = "failed")
              => /\ run' = run
                 /\ ss' = ss
        /\ (ss'.processing_complete /\ ~ss.processing_complete)
              => run'.status = "complete"
      ]_vars

C14_Witness ==
    /\ pc = "idle"
    /\ run.status = "failed"
    /\ run.stages = <<"ExtractingAudio", "Transcribing", "Summarizing">>
    /\ ~ss.processing_complete

\* C15: a run on a video or audio file that reaches Summarizing has invoked
\* transcribe_audio earlier in the same run, and summarizes the transcript it returned.
C15_SummarizesOwnTranscript ==
    (run.file_type \in {"video", "audio"} /\ run.summarized # <<>>)
        => /\ \E i \in 1..Len(run.stages) : run.stages[i] = "Transcribing"
           /\ run.summarized = run.transcribed

\* C16: whenever the completion flag is set and a document is offered for download,
\* that document was assembled from the transcript, summary and action items the
\* session state holds and the page shows.
C16_DocumentMatchesSession ==
    (pc = "idle" /\ ss.processing_complete /\ shown.download # <<>>)
        => /\ shown.download = ss.docx_file
           /\ shown.download[5].text = ss.summary
           /\ shown.download[Len(shown.download)].text = ss.transcript
           /\ shown.summary = ss.summary
           /\ shown.transcript = ss.transcript
           /\ shown.action_items = ss.action_items
           /\ Len(shown.download) = 7 + (IF ss.action_items = <<>> THEN 0
                                         ELSE 1 + Len(ss.action_items))

\* C17: with nothing collected yet, a non-bulleted line is dropped only if it begins
\* with the word "no"; a first line whose first word merely starts with those letters
\* ("Notify the vendor by Friday", "Nora will send the notes") is kept with "- " in front.
C17_OnlyTheWordNoIsDropped ==
    (/\ ret.fn = "generate_summary_and_actions"
     /\ ret.ok
     /\ call.action_response.text \in {NotifyResponse, NoraResponse})
        => ret.action_items = << <<"-", " ">> \o call.action_response.text >>

\* C18: no file larger than the configured maximum, of any of the three kinds, becomes
\* the input of a run or has its content placed in the session state.
C18_OversizedNeverAccepted ==
    /\ run.uploaded_file.size <= MAX_FILE_SIZE_MB * 1024 * 1024
    /\ \A f \in VideoFiles \cup AudioFiles \cup TextFiles :
          (f.size > MAX_FILE_SIZE_MB * 1024 * 1024 /\ f.kind = "text")
              => ss.transcript # Strip(f.content)

\* C19: within a run the progress values reported are non-decreasing, whatever the
\* input kind and wherever the run fails, and 100 is reported only once summarization
\* and document assembly have both succeeded.
C19_ProgressMonotonic ==
    /\ \A i, j \in 1..Len(run.progress) :
          i < j => run.progress[i] <= run.progress[j]
    /\ (\E i \in 1..Len(run.progress) : run.progress[i] = 100)
          => /\ run.status = "complete"
             /\ run.progress[Len(run.progress)] = 100
             /\ run.summary # <<>>
             /\ Len(run.stages) >= 2
             /\ SubSeq(run.stages, Len(run.stages) - 1, Len(run.stages))
                   = <<"Summarizing", "AssemblingDocument">>
             /\ ss.processing_complete
             /\ ss.docx_file # <<>>

C19_Witness ==
    /\ run.status = "complete"
    /\ run.file_type = "video"
    /\ run.progress = <<0, 10, 40, 70, 90, 100>>

====
